---- MODULE Spec2Model ----
\* BLE robot controller (src/main.py): BLEController and the App glue that
\* drives it from the Tk foreground through one background asyncio loop.
\*
\* A step of the model is one uninterrupted run of a coroutine on the event
\* loop: from the point where it is resumed up to its next suspension (an
\* await that really yields) or its end.  Awaiting a coroutine or a free
\* asyncio.Lock does not yield, so such code belongs to the same step.
EXTENDS Integers, Sequences, FiniteSets, TLC

\* ---------------------------------------------------------------- bounds
\* Number of coroutines that may be pending on the background loop at once
\* (the operator may submit any number of requests over time).
MaxPending == 2

\* ------------------------------------------------------------- constants
DEVICE_NAME == "ardubotr4"
COMMAND_CHAR_UUID == "19B10001-E8F2-537E-4F6C-D104768A1214"
REQUIRE_RESPONSE_ON_WRITE == TRUE
\* retry cap of the service poll, `retries < 10`
MaxRetries == 10

None == "None"
\* `self.client = None`: handles are numbered from 1
NoHandle == 0
NoExc == ""

\* COMMANDS: name -> payload text
COMMANDS == [forward |-> "forward", back |-> "back", left |-> "left",
             right |-> "right", switch |-> "switch"]

\* str.encode("utf-8") of the payload texts (all ASCII): text -> bytes
Utf8Encode(txt) ==
    CASE txt = "forward" -> <<102, 111, 114, 119, 97, 114, 100>>
      [] txt = "back"    -> <<98, 97, 99, 107>>
      [] txt = "left"    -> <<108, 101, 102, 116>>
      [] txt = "right"   -> <<114, 105, 103, 104, 116>>
      [] txt = "switch"  -> <<115, 119, 105, 116, 99, 104>>

\* bytes.decode('utf-8', errors='replace') on the byte strings above
Utf8Decode(bytes) ==
    IF \E n \in DOMAIN COMMANDS : Utf8Encode(COMMANDS[n]) = bytes
    THEN CHOOSE txt \in {COMMANDS[n] : n \in DOMAIN COMMANDS} : Utf8Encode(txt) = bytes
    ELSE "?"

\* str.lower() on the names and identifiers that occur
Lower(str) ==
    CASE str = "ARDUBOTR4" -> "ardubotr4"
      [] str = "ArduBotR4" -> "ardubotr4"
      [] str = "19B10001-E8F2-537E-4F6C-D104768A1214" -> "19b10001-e8f2-537e-4f6c-d104768a1214"
      [] str = "19B10002-E8F2-537E-4F6C-D104768A1214" -> "19b10002-e8f2-537e-4f6c-d104768a1214"
      [] OTHER -> str

\* ---------------------------------------------------------------- inputs
\* Buttons the operator presses in the model (two of the five commands).
Pressed == {"forward", "switch"}

Dev(n, a) == [name |-> n, address |-> a]
\* Results of BleakScanner.discover: lists of advertised devices.
DeviceLists ==
    { << Dev("", "A2"), Dev("other", "A3") >>,
      << Dev("other", "A3"), Dev("ArduBotR4", "A1"), Dev("ardubotr4", "A2") >> }

Chr(u, p) == [uuid |-> u, properties |-> p]
Svc(cs) == [characteristics |-> cs]
OtherUuid == "19B10002-E8F2-537E-4F6C-D104768A1214"
LowerCmdUuid == "19b10001-e8f2-537e-4f6c-d104768a1214"
\* Values of client.services once populated.
ServiceLists ==
    { \* writable characteristic first, the command characteristic after it
      << Svc(<< Chr(OtherUuid, {"read", "write"}) >>),
         Svc(<< Chr(LowerCmdUuid, {"write"}) >>) >>,
      \* no command characteristic, second one is writable
      << Svc(<< Chr("2A00", {"read"}),
                Chr(OtherUuid, {"write-without-response"}) >>) >>,
      \* nothing writable
      << Svc(<< Chr("2A00", {"read"}) >>) >>,
      \* no command characteristic, two writable ones in the second service
      << Svc(<< Chr("2A00", {"read"}) >>),
         Svc(<< Chr(OtherUuid, {"write"}), Chr("2A01", {"write"}) >>) >> }
\* What one read of client.services yields: not populated yet, or a list.
ServiceReads == {<<>>} \cup ServiceLists

\* Places for pending coroutines, and for the BleakClient objects alive at
\* once (one local to each pending connect, one held by the controller).
Slots == 1 .. MaxPending
Handles == 1 .. (MaxPending + 1)

VARIABLES
    bleak,        \* BleakScanner / BleakClient imported (not None)
    client,       \* BLEController.client: a handle or None
    char_uuid,    \* BLEController.char_uuid: an identifier or None
    address,      \* BLEController.address
    connected,    \* BLEController.connected
    locked,       \* BLEController._lock._locked
    waiters,      \* BLEController._lock._waiters (FIFO of coroutines)
    owner,        \* the coroutine inside `async with self._lock`, 0 when none
    task,         \* the coroutines pending on the background loop
    readyQ,       \* submitted coroutines not yet started, oldest first
    hstate,       \* transport side of each live BleakClient object
    closeCalled,  \* live handles on which client.disconnect() has been called
    leaked,       \* a handle nobody refers to any more was left open
    status_var,   \* App.status_var
    watch,        \* which of the observations this run records
    fin,          \* history: the coroutine that ended last
    scen,         \* history: the two-concurrent-sends scenario and its calls
    rec,          \* history: a failure, then a send on its own
    shutdown,     \* App.on_close / App._run_loop: how far the shutdown is
    quitTask,     \* the disconnect coroutine on_close submitted, 0 when none
    quitDone      \* on_close's future was done while on_close waited for it

vars == << bleak, client, char_uuid, address, connected, locked, waiters, owner,
           task, readyQ, hstate, closeCalled, leaked, status_var, watch,
           fin, scen, rec, shutdown, quitTask, quitDone >>

\* The program never reads back its status text nor a client object it has
\* dropped, and the two histories are not program state: a run records one of
\* them (status_var, leaked, fin, scen, rec), fixed from the start.
Watches == {"status", "leak", "fin", "scen", "recover"}

\* ------------------------------------------------------- initial state
\* Arguments of a write_gatt_char call in flight (none: NoWrite).
NoWrite == [h |-> NoHandle, char |-> None, payload |-> <<>>, response |-> FALSE]

\* A coroutine: its kind, where it is suspended, its locals (payload, the
\* client it created, retries, ok), the exception it ended with, whether it
\* swallowed a teardown error, whether its poll loop ended with `services`
\* still empty (degraded), and the transport calls it has issued.
NoTask == [kind |-> "none", pc |-> "idle", payload |-> <<>>, h |-> NoHandle,
           retries |-> 0, ok |-> "none", exc |-> NoExc, swallowed |-> FALSE,
           degraded |-> FALSE, wargs |-> NoWrite,
           nscan |-> 0, nopen |-> 0, nclose |-> 0, wrote |-> 0]
NewTask(k, p) == [NoTask EXCEPT !.kind = k, !.pc = "ready", !.payload = p]

NoScen == [phase |-> "none", scans |-> 0, opens |-> 0, writes |-> 0]

Init ==
    /\ bleak \in BOOLEAN
    /\ client = NoHandle
    /\ char_uuid = None
    /\ address = None
    /\ connected = FALSE
    /\ locked = FALSE
    /\ waiters = <<>>
    /\ owner = 0
    \* App.__init__ schedules _connect_and_update()
    /\ task = [t \in Slots |-> IF t = 1 THEN NewTask("connect", <<>>) ELSE NoTask]
    /\ readyQ = <<1>>
    /\ hstate = [h \in Handles |-> "none"]
    /\ closeCalled = {}
    /\ leaked = FALSE
    /\ status_var = <<"Not connected">>
    /\ watch \in Watches
    /\ fin = NoTask
    /\ scen = NoScen
    /\ rec = "none"
    \* the loop thread is running (run_forever), nobody has asked to quit
    /\ shutdown = "running"
    /\ quitTask = 0
    /\ quitDone = FALSE

\* The part of the state the background coroutines read and write.
Cur == [client |-> client, char_uuid |-> char_uuid, address |-> address,
        connected |-> connected, locked |-> locked, waiters |-> waiters,
        owner |-> owner, task |-> task, readyQ |-> readyQ, hstate |-> hstate,
        closeCalled |-> closeCalled, leaked |-> leaked,
        status_var |-> status_var, fin |-> fin]

\* BleakClient objects still referred to: by the controller or by a local.
Referenced(s) == ({s.client} \cup {s.task[t].h : t \in Slots}) \ {NoHandle}

\* Objects nobody refers to are dropped; one left open stays open for good.
Collect(s) ==
    [s EXCEPT !.hstate = [h \in Handles |->
                            IF h \in Referenced(s) THEN s.hstate[h] ELSE "none"],
              !.closeCalled = @ \cap Referenced(s),
              !.leaked = @ \/ (watch = "leak"
                                /\ \E h \in Handles \ Referenced(s) :
                                       s.hstate[h] = "open")]

Commit(s) ==
    /\ client' = s.client
    /\ char_uuid' = s.char_uuid
    /\ address' = s.address
    /\ connected' = s.connected
    /\ locked' = s.locked
    /\ waiters' = s.waiters
    /\ owner' = s.owner
    /\ task' = s.task
    /\ readyQ' = s.readyQ
    /\ hstate' = s.hstate
    /\ closeCalled' = s.closeCalled
    /\ leaked' = s.leaked
    /\ status_var' = s.status_var
    /\ fin' = s.fin
    /\ UNCHANGED << bleak, watch >>

\* ------------------------------------------------------------ App glue
\* App._set_status: the update is handed to the Tk main loop, which runs the
\* updates in the order they were queued; it is applied here at once.
SetStatus(s, txt) ==
    IF watch = "status" THEN [s EXCEPT !.status_var = txt] ELSE s

\* Nothing of a coroutine outlives it: its frame and its future are dropped.
Done(s, t) ==
    [s EXCEPT !.task[t] = NoTask,
              !.fin = IF watch = "fin"
                      THEN [s.task[t] EXCEPT !.pc = "done", !.payload = <<>>,
                                             !.retries = 0, !.wargs = NoWrite]
                      ELSE @]

\* The coroutine of task t ends, with exception e or normally (NoExc).  The
\* future of a send carries on_button's done callback, which runs on a later
\* turn of the loop and reports a failure.
Finish(s, t, e) ==
    IF s.task[t].kind = "send" /\ e # NoExc
    THEN [s EXCEPT !.task[t].exc = e, !.task[t].pc = "raised"]
    ELSE Done([s EXCEPT !.task[t].exc = e], t)

\* ------------------------------------------------------- asyncio.Lock
\* Variant: the lock is taken without looking whether it is held.
CanAcquireUnchecked(s) == TRUE

\* Lock.acquire succeeds at once only when unlocked and nobody is queued.
CanAcquire(s) == ~s.locked /\ s.waiters = <<>>
Lock(s, t) == [s EXCEPT !.locked = TRUE, !.owner = t]
\* Lock.acquire otherwise: queue a waiter and suspend.
Enqueue(s, t, pc) == [s EXCEPT !.waiters = Append(@, t), !.task[t].pc = pc]
\* Lock.release at the end of `async with`; the first waiter is woken.
Release(s) == [s EXCEPT !.locked = FALSE, !.owner = 0]

\* ------------------------------------------------- BLEController.send
\* Variant: the write is issued with the default of `require_response`.
EnterSendDefaultResponse(s, t) ==
    IF ~(s.client # NoHandle /\ s.connected /\ s.char_uuid # None)
    THEN Finish(SetStatus(Release(s), <<"Send failed: ", "Not connected">>),
                t, "Not connected")
    ELSE [s EXCEPT !.task[t].pc = "write",
                   !.task[t].wrote = @ + 1,
                   !.task[t].wargs = [h |-> s.client, char |-> s.char_uuid,
                                      payload |-> s.task[t].payload,
                                      response |-> FALSE]]

EnterSend(s, t) ==
    IF ~(s.client # NoHandle /\ s.connected /\ s.char_uuid # None)
    THEN \* raise RuntimeError("Not connected"); _send_command reports it
         Finish(SetStatus(Release(s), <<"Send failed: ", "Not connected">>),
                t, "Not connected")
    ELSE [s EXCEPT !.task[t].pc = "write",
                   !.task[t].wrote = @ + 1,
                   !.task[t].wargs = [h |-> s.client, char |-> s.char_uuid,
                                      payload |-> s.task[t].payload,
                                      response |-> REQUIRE_RESPONSE_ON_WRITE]]

BleSend(s, t) ==
    IF CanAcquire(s) THEN EnterSend(Lock(s, t), t)
    ELSE Enqueue(s, t, "lock_send")

\* --------------------- what follows scan_and_connect in either caller
\* res is its outcome: "true", "false" or "raised" (with exception e); its
\* local client goes out of scope.
AfterConnect(s, t, res, e) ==
    LET s1 == [s EXCEPT !.task[t].ok = res, !.task[t].h = NoHandle] IN
    IF s.task[t].kind = "connect"
    THEN \* App._connect_and_update
         Finish(SetStatus(s1,
                   CASE res = "true"  -> <<"Connected to ", DEVICE_NAME>>
                     [] res = "false" -> <<"Device '", DEVICE_NAME,
                                           "' not found or no writable char">>
                     [] OTHER         -> <<"Connection error: ", e>>),
                t, NoExc)
    ELSE \* App._send_command
         CASE res = "raised" ->
                Finish(SetStatus(s1, <<"Connection error: ", e>>), t, e)
           [] res = "false" ->
                Finish(SetStatus(s1, <<"Device '", DEVICE_NAME, "' not found">>),
                       t, "Device not connected")
           [] OTHER -> BleSend([s1 EXCEPT !.task[t].degraded = FALSE], t)

\* --------------------------------- BLEController.scan_and_connect
\* Index of the first element of seq satisfying P, 0 when there is none
\* (a for loop with break).
FirstIndex(seq, P(_)) ==
    IF \E i \in 1 .. Len(seq) : P(seq[i])
    THEN CHOOSE i \in 1 .. Len(seq) :
            P(seq[i]) /\ \A j \in 1 .. (i - 1) : ~P(seq[j])
    ELSE 0

\* `d.name and d.name.lower() == name.lower()`
NameMatches(d, name) == d.name # "" /\ Lower(d.name) = Lower(name)

\* The device the scan loop picks: a device, or None.
FindTarget(devices, name) ==
    LET Hit(d) == NameMatches(d, name)
        i == FirstIndex(devices, Hit)
    IN IF i = 0 THEN Dev("", None) ELSE devices[i]

\* The characteristics of all services, in service then characteristic order.
RECURSIVE AllChars(_)
AllChars(services) ==
    IF services = <<>> THEN <<>>
    ELSE Head(services).characteristics \o AllChars(Tail(services))

\* Variant: one pass that takes the first characteristic that is either the
\* command characteristic or writable.
ChooseCharFirstUsable(services) ==
    LET chars == AllChars(services)
        Usable(ch) == \/ Lower(ch.uuid) = Lower(COMMAND_CHAR_UUID)
                      \/ "write" \in ch.properties
                      \/ "write-without-response" \in ch.properties
        i == FirstIndex(chars, Usable)
    IN IF i # 0 THEN chars[i].uuid ELSE None

\* chosen_char_uuid: the command characteristic if exposed, else the first
\* writable one, else None.
ChooseChar(services) ==
    LET chars == AllChars(services)
        IsCmd(ch) == Lower(ch.uuid) = Lower(COMMAND_CHAR_UUID)
        Writable(ch) == "write" \in ch.properties
                        \/ "write-without-response" \in ch.properties
        i == FirstIndex(chars, IsCmd)
        j == FirstIndex(chars, Writable)
    IN IF i # 0 THEN chars[i].uuid
       ELSE IF j # 0 THEN chars[j].uuid
       ELSE None

\* Variant: no `or COMMAND_CHAR_UUID` fallback for the characteristic.
FinalizeWithoutDefault(s, t, services) ==
    LET s1 == [s EXCEPT !.task[t].retries = 0,
                        !.task[t].degraded = (services = <<>>),
                        !.client = s.task[t].h,
                        !.char_uuid = ChooseChar(services),
                        !.connected = TRUE]
    IN AfterConnect(Release(s1), t, "true", NoExc)

\* "Finalize selection": the three fields are set with no await in between,
\* then the lock is released and True returned.
Finalize(s, t, services) ==
    LET chosen == ChooseChar(services)
        s1 == [s EXCEPT !.task[t].retries = 0,
                        !.task[t].degraded = (services = <<>>),
                        !.client = s.task[t].h,
                        !.char_uuid = IF chosen # None THEN chosen
                                      ELSE COMMAND_CHAR_UUID,
                        !.connected = TRUE]
    IN AfterConnect(Release(s1), t, "true", NoExc)

\* Variant: the error is re-raised without disconnecting the local client.
CleanupSkipped(s, t) ==
    AfterConnect(Release([s EXCEPT !.task[t].retries = 0]), t, "raised",
                 "BleakError")

\* `except Exception: await client.disconnect()` on the local client.
Cleanup(s, t) ==
    [s EXCEPT !.task[t].pc = "cleanup",
              !.task[t].retries = 0,
              !.task[t].nclose = @ + 1,
              !.closeCalled = @ \cup {s.task[t].h}]

\* Variant: services still empty at the retry cap is treated as an error.
PollLoopGivesUp(s, t, services) ==
    IF services = <<>> /\ s.task[t].retries < MaxRetries
    THEN [s EXCEPT !.task[t].pc = "poll"]
    ELSE IF services = <<>> THEN Cleanup(s, t)
    ELSE Finalize(s, t, services)

\* `while not services and retries < 10`: sleep again, or go on.
PollLoop(s, t, services) ==
    IF services = <<>> /\ s.task[t].retries < MaxRetries
    THEN [s EXCEPT !.task[t].pc = "poll"]
    ELSE Finalize(s, t, services)

\* BleakClient(...): a new object.
NewHandle(s) ==
    CHOOSE h \in Handles :
        /\ s.hstate[h] = "none"
        /\ \A g \in 1 .. (h - 1) : s.hstate[g] # "none"

\* Variant: when already connected, a new client is opened on the stored
\* address instead of returning.
EnterConnectReopens(s, t) ==
    IF s.connected
    THEN [s EXCEPT !.hstate[NewHandle(s)] = "created",
                   !.task[t].h = NewHandle(s),
                   !.task[t].pc = "open",
                   !.task[t].nopen = @ + 1]
    ELSE [s EXCEPT !.task[t].pc = "discover", !.task[t].nscan = @ + 1]

\* Variant: the `if self.connected: return True` shortcut is missing.
EnterConnectAlwaysScans(s, t) ==
    [s EXCEPT !.task[t].pc = "discover", !.task[t].nscan = @ + 1]

\* Inside the lock: return at once when connected, else start the scan.
EnterConnect(s, t) ==
    IF s.connected THEN AfterConnect(Release(s), t, "true", NoExc)
    ELSE [s EXCEPT !.task[t].pc = "discover", !.task[t].nscan = @ + 1]

ScanAndConnect(s, t) ==
    IF ~bleak THEN AfterConnect(s, t, "raised", "bleak is not installed")
    ELSE IF CanAcquire(s) THEN EnterConnect(Lock(s, t), t)
    ELSE Enqueue(s, t, "lock_connect")

\* Variant: the address of the first advertised device is stored before the
\* scan loop looks for the target.
AfterDiscoverStoresFirst(s, t, devices) ==
    LET target == FindTarget(devices, DEVICE_NAME)
        h == NewHandle(s)
        s0 == [s EXCEPT !.address = IF devices = <<>> THEN @
                                    ELSE devices[1].address]
    IN IF target.address = None
       THEN AfterConnect(Release(s0), t, "false", NoExc)
       ELSE [s0 EXCEPT !.address = target.address,
                       !.hstate[h] = "created",
                       !.task[t].h = h,
                       !.task[t].pc = "open",
                       !.task[t].nopen = @ + 1]

\* After discover returned: pick the target, create the client, open it.
AfterDiscover(s, t, devices) ==
    LET target == FindTarget(devices, DEVICE_NAME)
        h == NewHandle(s)
    IN IF target.address = None
       THEN AfterConnect(Release(s), t, "false", NoExc)
       ELSE [s EXCEPT !.address = target.address,
                      !.hstate[h] = "created",
                      !.task[t].h = h,
                      !.task[t].pc = "open",
                      !.task[t].nopen = @ + 1]

\* ------------------------------------------- BLEController.disconnect
\* Variant: the fields are left as they are after the teardown.
ClearStateForgotten(s) == s

ClearState(s) ==
    [s EXCEPT !.client = NoHandle, !.char_uuid = None, !.connected = FALSE]

\* Variant: the teardown is attempted without the `self.client and
\* self.connected` test.
EnterDisconnectUnguarded(s, t) ==
    [s EXCEPT !.task[t].pc = "close",
              !.task[t].nclose = @ + 1,
              !.closeCalled = @ \cup ({s.client} \ {NoHandle})]

\* Variant: the fields are reset without tearing the connection down.
EnterDisconnectNoTeardown(s, t) ==
    Finish(Release(ClearState(s)), t, NoExc)

\* The object stays referred to by self.client during the call.
EnterDisconnect(s, t) ==
    IF s.client # NoHandle /\ s.connected
    THEN [s EXCEPT !.task[t].pc = "close",
                   !.task[t].nclose = @ + 1,
                   !.closeCalled = @ \cup {s.client}]
    ELSE Finish(Release(ClearState(s)), t, NoExc)

BleDisconnect(s, t) ==
    IF CanAcquire(s) THEN EnterDisconnect(Lock(s, t), t)
    ELSE Enqueue(s, t, "lock_disc")

\* ------------------------------------------------ scenario history
\* "Two sends submitted from a quiet, disconnected controller and nothing
\* else, with the transport behaving": none -> one -> two, broken by any other
\* submission and by any transport failure.  While it runs, the discover,
\* open and write calls issued are counted.
AllIdle == \A t \in Slots : task[t].pc = "idle"

Entered(s, pc) ==
    Cardinality({t \in Slots : s.task[t].pc = pc /\ task[t].pc # pc})

ScenBackground(s, fault) ==
    IF scen.phase \notin {"one", "two"} THEN scen
    ELSE IF fault THEN [NoScen EXCEPT !.phase = "broken"]
    ELSE [scen EXCEPT !.scans = @ + Entered(s, "discover"),
                      !.opens = @ + Entered(s, "open"),
                      !.writes = @ + Entered(s, "write")]

ScenSubmit(kind) ==
    IF watch # "scen" THEN scen
    ELSE IF kind = "send" /\ ~connected /\ AllIdle
    THEN [NoScen EXCEPT !.phase = "one"]
    ELSE IF kind = "send" /\ ~connected /\ scen.phase = "one"
    THEN [scen EXCEPT !.phase = "two"]
    ELSE IF scen.phase = "none" THEN scen
    ELSE [NoScen EXCEPT !.phase = "broken"]

\* ------------------------------------------------ recovery history
\* "An operation ended in failure; later a send was submitted to the quiet
\* controller, nothing else was, and the transport behaved":
\* none -> failed -> send -> ok, or bad when that send ends in failure; void
\* when something else is submitted or the transport fails again.
RecBackground(s, fault) ==
    LET Ends(t) == task[t].pc # "idle" /\ s.task[t].pc \in {"idle", "raised"}
                   /\ task[t].pc # "raised"
    IN IF watch # "recover" THEN rec
       ELSE CASE rec = "none" ->
                   IF fault /\ \E t \in Slots :
                                  Ends(t) /\ task[t].kind \in {"connect", "send"}
                   THEN "failed" ELSE "none"
              [] rec = "send" ->
                   IF fault THEN "void"
                   ELSE IF \E t \in Slots : Ends(t) /\ s.task[t].pc = "raised"
                   THEN "bad"
                   ELSE IF \E t \in Slots : Ends(t) /\ task[t].pc = "write"
                   THEN "ok"
                   ELSE "send"
              [] OTHER -> rec

RecSubmit(kind) ==
    IF watch # "recover" THEN rec
    ELSE IF rec = "failed" /\ kind = "send" /\ AllIdle THEN "send"
    ELSE IF rec = "send" THEN "void"
    ELSE rec

\* One step of the background loop, leading to s; fault: the transport
\* failed in it.  The loop runs callbacks until loop.stop() has taken effect.
Step(s, fault) ==
    /\ shutdown # "stopped"
    /\ Commit(Collect(s))
    /\ scen' = ScenBackground(s, fault)
    /\ rec' = RecBackground(s, fault)
    /\ quitDone' = (quitDone \/ (/\ shutdown = "waiting"
                                 /\ quitTask # 0
                                 /\ task[quitTask].pc # "idle"
                                 /\ s.task[quitTask].pc = "idle"))
    /\ UNCHANGED << shutdown, quitTask >>

\* ============================================================ actions
\* ------------------------------------------------ background loop steps
\* First run of the oldest submitted coroutine.
Start(t) ==
    /\ readyQ # <<>>
    /\ Head(readyQ) = t
    /\ LET s0 == [Cur EXCEPT !.readyQ = Tail(@)] IN
       Step(CASE task[t].kind = "connect" ->
                   ScanAndConnect(
                      SetStatus(s0, <<"Scanning for ", DEVICE_NAME, "...">>), t)
              [] task[t].kind = "disconnect" -> BleDisconnect(s0, t)
              [] task[t].kind = "send" ->
                   IF ~connected THEN ScanAndConnect(s0, t)
                   ELSE BleSend(s0, t),
            ~bleak)

\* A waiter woken by Lock.release takes the lock and enters its section.
LockWake(t) ==
    /\ task[t].pc \in {"lock_connect", "lock_disc", "lock_send"}
    /\ ~locked
    /\ waiters # <<>>
    /\ Head(waiters) = t
    /\ LET s1 == Lock([Cur EXCEPT !.waiters = Tail(@)], t) IN
       Step(CASE task[t].pc = "lock_connect" -> EnterConnect(s1, t)
              [] task[t].pc = "lock_disc" -> EnterDisconnect(s1, t)
              [] task[t].pc = "lock_send" -> EnterSend(s1, t),
            FALSE)

\* BleakScanner.discover returned the list devices.
DiscoverReturnsWith(t, devices) ==
    /\ task[t].pc = "discover"
    /\ Step(AfterDiscover(Cur, t, devices),
            FindTarget(devices, DEVICE_NAME).address = None)

DiscoverReturn(t) == \E devices \in DeviceLists : DiscoverReturnsWith(t, devices)

DiscoverRaise(t) ==
    /\ task[t].pc = "discover"
    /\ Step(AfterConnect(Release(Cur), t, "raised", "BleakError"), TRUE)

\* client.connect() returned; first read of client.services.
OpenReturnsWith(t, services) ==
    /\ task[t].pc = "open"
    /\ Step(PollLoop([Cur EXCEPT !.hstate[task[t].h] = "open"], t, services),
            FALSE)

OpenReturn(t) == \E services \in ServiceReads : OpenReturnsWith(t, services)

\* client.connect() returned but reading the services raised.
OpenThenRaise(t) ==
    /\ task[t].pc = "open"
    /\ Step(Cleanup([Cur EXCEPT !.hstate[task[t].h] = "open"], t), TRUE)

\* client.connect() raised; the link may or may not be up.
OpenRaise(t) ==
    /\ task[t].pc = "open"
    /\ \E st \in {"created", "open"} :
          Step(Cleanup([Cur EXCEPT !.hstate[task[t].h] = st], t), TRUE)

\* asyncio.sleep(0.1) is over: read the services again, count the retry.
PollWakesWith(t, services) ==
    /\ task[t].pc = "poll"
    /\ Step(PollLoop([Cur EXCEPT !.task[t].retries = @ + 1], t, services),
            FALSE)

PollWake(t) == \E services \in ServiceReads : PollWakesWith(t, services)

PollRaise(t) ==
    /\ task[t].pc = "poll"
    /\ Step(Cleanup(Cur, t), TRUE)

\* Variant: the error leaves scan_and_connect with the lock still held.
CleanupDoneKeepsLock(t) ==
    /\ task[t].pc = "cleanup"
    /\ \E closed \in BOOLEAN :
          Step(AfterConnect(
                 [Cur EXCEPT !.hstate[task[t].h] =
                                IF closed THEN "closed" ELSE @,
                             !.task[t].swallowed = ~closed],
                 t, "raised", "BleakError"),
               TRUE)

\* The cleanup disconnect is over (its own error is ignored): re-raise.
CleanupDoneWith(t, closed) ==
    /\ task[t].pc = "cleanup"
    /\ Step(AfterConnect(
               Release([Cur EXCEPT !.hstate[task[t].h] =
                                      IF closed THEN "closed" ELSE @,
                                   !.task[t].swallowed = ~closed]),
               t, "raised", "BleakError"),
            TRUE)

CleanupDone(t) == \E closed \in BOOLEAN : CleanupDoneWith(t, closed)

\* Variant: a teardown error leaves `async with` at once; the fields are
\* not reset.
CloseDonePropagates(t) ==
    /\ task[t].pc = "close"
    /\ \E closed \in BOOLEAN :
          Step(IF closed
               THEN Finish(Release(ClearState(
                      [Cur EXCEPT !.hstate[client] = "closed"])), t, NoExc)
               ELSE Finish(Release(Cur), t, "BleakError"),
               ~closed)

\* self.client.disconnect() is over, cleanly or with an ignored error.
CloseDoneWith(t, closed) ==
    /\ task[t].pc = "close"
    /\ Step(Finish(Release(ClearState(
               [Cur EXCEPT !.hstate[client] = IF closed THEN "closed" ELSE @,
                           !.task[t].swallowed = ~closed])),
               t, NoExc),
            ~closed)

CloseDone(t) == \E closed \in BOOLEAN : CloseDoneWith(t, closed)

WriteReturn(t) ==
    /\ task[t].pc = "write"
    /\ Step(Finish(SetStatus(Release(Cur),
                             <<"Sent: ", Utf8Decode(task[t].payload)>>),
                   t, NoExc),
            FALSE)

\* Variant: a failed write drops the connection state.
WriteRaiseDisconnects(t) ==
    /\ task[t].pc = "write"
    /\ Step(Finish(SetStatus(Release(ClearState(
                               [Cur EXCEPT !.task[t].wargs = NoWrite])),
                             <<"Send failed: ", "BleakError">>),
                   t, "BleakError"),
            TRUE)

WriteRaise(t) ==
    /\ task[t].pc = "write"
    /\ Step(Finish(SetStatus(Release([Cur EXCEPT !.task[t].wargs = NoWrite]),
                             <<"Send failed: ", "BleakError">>),
                   t, "BleakError"),
            TRUE)

\* on_button's done callback of a failed send.
FutureDone(t) ==
    /\ task[t].pc = "raised"
    /\ Step(SetStatus(Done(Cur, t), <<"Send error: ", task[t].exc>>), FALSE)

\* ----------------------------------------------------- foreground steps
\* App._schedule_coroutine: the coroutine takes a free place and is queued
\* on the loop.
Schedule(kind, payload) ==
    /\ shutdown = "running"
    /\ \E t \in Slots : task[t].pc = "idle"
    /\ LET t == CHOOSE u \in Slots :
                   task[u].pc = "idle" /\ \A v \in 1 .. (u - 1) : task[v].pc # "idle"
       IN /\ task' = [task EXCEPT ![t] = NewTask(kind, payload)]
          /\ readyQ' = Append(readyQ, t)
    /\ scen' = ScenSubmit(kind)
    /\ rec' = RecSubmit(kind)
    /\ UNCHANGED << bleak, client, char_uuid, address, connected, locked,
                    waiters, owner, hstate, closeCalled, leaked, status_var,
                    watch, fin, shutdown, quitTask, quitDone >>

\* "Reconnect" button
RequestConnect == Schedule("connect", <<>>)

\* "Disconnect" button
RequestDisconnect == Schedule("disconnect", <<>>)

\* App.on_button
OnButton ==
    \E name \in Pressed : Schedule("send", Utf8Encode(COMMANDS[name]))

\* ------------------------------------------------------------ shutdown
\* Variant: the disconnect is put in front of the coroutines already
\* submitted.
OnCloseJumpsQueue ==
    /\ shutdown = "running"
    /\ \E t \in Slots : task[t].pc = "idle"
    /\ LET t == CHOOSE u \in Slots :
                   task[u].pc = "idle" /\ \A v \in 1 .. (u - 1) : task[v].pc # "idle"
       IN /\ task' = [task EXCEPT ![t] = NewTask("disconnect", <<>>)]
          /\ readyQ' = <<t>> \o readyQ
          /\ quitTask' = t
    /\ shutdown' = "waiting"
    /\ scen' = ScenSubmit("disconnect")
    /\ rec' = RecSubmit("disconnect")
    /\ UNCHANGED << bleak, client, char_uuid, address, connected, locked,
                    waiters, owner, hstate, closeCalled, leaked, status_var,
                    watch, fin, quitDone >>

\* App.on_close, the operator having confirmed: the disconnect is submitted
\* and the foreground blocks in fut.result(timeout=3).
OnClose ==
    /\ shutdown = "running"
    /\ \E t \in Slots : task[t].pc = "idle"
    /\ LET t == CHOOSE u \in Slots :
                   task[u].pc = "idle" /\ \A v \in 1 .. (u - 1) : task[v].pc # "idle"
       IN /\ task' = [task EXCEPT ![t] = NewTask("disconnect", <<>>)]
          /\ readyQ' = Append(readyQ, t)
          /\ quitTask' = t
    /\ shutdown' = "waiting"
    /\ scen' = ScenSubmit("disconnect")
    /\ rec' = RecSubmit("disconnect")
    /\ UNCHANGED << bleak, client, char_uuid, address, connected, locked,
                    waiters, owner, hstate, closeCalled, leaked, status_var,
                    watch, fin, quitDone >>

\* Variant: fut.result() without a timeout returns only when the future is
\* done.
WaitEndsNoTimeout ==
    /\ shutdown = "waiting"
    /\ quitDone
    /\ shutdown' = "stopping"
    /\ UNCHANGED << bleak, client, char_uuid, address, connected, locked,
                    waiters, owner, task, readyQ, hstate, closeCalled, leaked,
                    status_var, watch, fin, scen, rec, quitTask, quitDone >>

\* fut.result(timeout=3) is over: the future was done, or the three seconds
\* elapsed (TimeoutError, swallowed).  Either way loop.stop is handed to the
\* loop with call_soon_threadsafe and the window is destroyed.
WaitEnds ==
    /\ shutdown = "waiting"
    /\ shutdown' = "stopping"
    /\ UNCHANGED << bleak, client, char_uuid, address, connected, locked,
                    waiters, owner, task, readyQ, hstate, closeCalled, leaked,
                    status_var, watch, fin, scen, rec, quitTask, quitDone >>

\* The loop runs the stop callback: run_forever returns, _run_loop closes
\* the loop.  Nothing runs on it any more.
LoopStop ==
    /\ shutdown = "stopping"
    /\ shutdown' = "stopped"
    /\ UNCHANGED << bleak, client, char_uuid, address, connected, locked,
                    waiters, owner, task, readyQ, hstate, closeCalled, leaked,
                    status_var, watch, fin, scen, rec, quitTask, quitDone >>

Next ==
    \/ \E t \in Slots : Start(t)
    \/ \E t \in Slots : LockWake(t)
    \/ \E t \in Slots : DiscoverReturn(t)
    \/ \E t \in Slots : DiscoverRaise(t)
    \/ \E t \in Slots : OpenReturn(t)
    \/ \E t \in Slots : OpenThenRaise(t)
    \/ \E t \in Slots : OpenRaise(t)
    \/ \E t \in Slots : PollWake(t)
    \/ \E t \in Slots : PollRaise(t)
    \/ \E t \in Slots : CleanupDone(t)
    \/ \E t \in Slots : CloseDone(t)
    \/ \E t \in Slots : WriteReturn(t)
    \/ \E t \in Slots : WriteRaise(t)
    \/ \E t \in Slots : FutureDone(t)
    \/ RequestConnect
    \/ RequestDisconnect
    \/ OnButton
    \/ OnClose
    \/ WaitEnds
    \/ LoopStop

Spec == Init /\ [][Next]_vars

\* The program with a transport whose disconnect never fails.
NextCloseOk ==
    \/ \E t \in Slots : Start(t)
    \/ \E t \in Slots : LockWake(t)
    \/ \E t \in Slots : DiscoverReturn(t)
    \/ \E t \in Slots : DiscoverRaise(t)
    \/ \E t \in Slots : OpenReturn(t)
    \/ \E t \in Slots : OpenThenRaise(t)
    \/ \E t \in Slots : OpenRaise(t)
    \/ \E t \in Slots : PollWake(t)
    \/ \E t \in Slots : PollRaise(t)
    \/ \E t \in Slots : CleanupDoneWith(t, TRUE)
    \/ \E t \in Slots : CloseDoneWith(t, TRUE)
    \/ \E t \in Slots : WriteReturn(t)
    \/ \E t \in Slots : WriteRaise(t)
    \/ \E t \in Slots : FutureDone(t)
    \/ RequestConnect
    \/ RequestDisconnect
    \/ OnButton
    \/ OnClose
    \/ WaitEnds
    \/ LoopStop

SpecCloseOk == Init /\ [][NextCloseOk]_vars

\* The bounded wait of on_close ends, and the loop, which never blocks
\* inside a callback, gets to the stop callback queued on it.
FairSpec == Spec /\ WF_vars(WaitEnds) /\ WF_vars(LoopStop)

\* ============================================================= claims
TransportPcs == {"discover", "open", "poll", "cleanup", "close", "write"}
LockPcs == {"lock_connect", "lock_disc", "lock_send"}
InFlight == {t \in Slots : task[t].pc \in TransportPcs}
Waiting == {waiters[i] : i \in 1 .. Len(waiters)}

\* C1: at most one transport call (discover, open, service poll, close,
\* write) is in flight, it is made by the coroutine holding the lock, and
\* every other coroutine that wants the lock is queued on it.
C1_MutualExclusion ==
    /\ Cardinality(InFlight) <= 1
    /\ \A t \in InFlight : locked /\ owner = t
    /\ \A t \in Slots : task[t].pc \in LockPcs <=> t \in Waiting
    /\ Waiting \cap InFlight = {}

C1_Witness ==
    \E t, u \in Slots : t # u /\ task[t].pc = "write" /\ task[u].pc \in LockPcs

\* C2: two sends submitted to a quiet, disconnected controller, with the
\* transport behaving and nothing else submitted, cause exactly one discover
\* and one open and then two writes, one after the other.
C2_TwoSendsOneConnect ==
    scen.phase \in {"one", "two"} =>
       /\ Cardinality({t \in Slots : task[t].pc = "open"}) <= 1
       /\ Cardinality({t \in Slots : task[t].pc = "write"}) <= 1
       /\ scen.scans <= 1 /\ scen.opens <= 1
       /\ scen.writes > 0 => scen.scans = 1 /\ scen.opens = 1 /\ connected
       /\ (scen.phase = "two" /\ AllIdle) =>
             scen.scans = 1 /\ scen.opens = 1 /\ scen.writes = 2

C2_Witness == scen.phase = "two" /\ AllIdle /\ scen.writes = 2

\* C3: in every state another coroutine can observe, the connection handle
\* and the characteristic are present exactly when the controller is
\* connected.
C3_StateConsistent ==
    /\ client # NoHandle <=> connected
    /\ char_uuid # None <=> connected

C3_Witness ==
    /\ connected
    /\ \E t \in Slots : task[t].pc = "close"
    /\ \E u \in Slots : task[u].pc = "lock_connect"

\* C4: a send ends with a not-connected outcome only if a connect attempt
\* made by that same send failed.
C4_NotConnectedOnlyAfterFailedConnect ==
    \A t \in Slots :
       (task[t].pc = "raised"
          /\ task[t].exc \in {"Not connected", "Device not connected"})
       => task[t].ok \in {"false", "raised"}

\* The coroutine in place t runs in this step.
Runs(t) == task'[t] # task[t] /\ task[t].pc # "idle"

\* C5: a connect request that gets the lock while the controller is
\* connected returns success without a discover or an open call and leaves
\* handle, characteristic, address and connected flag as they were.
C5_ConnectIdempotent ==
    [][\A t \in Slots :
          (/\ Runs(t)
           /\ bleak /\ connected
           /\ \/ task[t].pc = "lock_connect"
              \/ task[t].pc = "ready" /\ task[t].kind = "connect"
                 /\ ~locked /\ waiters = <<>>)
          => /\ UNCHANGED << client, char_uuid, address, connected, hstate >>
             /\ task'[t].pc \notin {"discover", "open"}
             /\ task[t].kind = "connect" =>
                   /\ task'[t] = NoTask
                   /\ watch = "status" =>
                         status_var' = <<"Connected to ", DEVICE_NAME>>
                   /\ watch = "fin" =>
                         fin'.ok = "true" /\ fin'.nscan = 0 /\ fin'.nopen = 0
             /\ task[t].kind = "send" =>
                   /\ task'[t].ok = "true"
                   /\ task'[t].pc \in {"write", "lock_send"}
                   /\ task'[t].nscan = 0 /\ task'[t].nopen = 0
      ]_vars

C5_Witness ==
    /\ fin.kind = "connect" /\ fin.ok = "true" /\ fin.nscan = 0
    /\ connected

\* C6: when a disconnect operation completes, the controller is
\* disconnected with no handle and no characteristic, also when the
\* transport teardown raised; the disconnect itself ends without error.
C6_DisconnectEndsDisconnected ==
    [][\A t \in Slots :
          (Runs(t) /\ task[t].kind = "disconnect" /\ task'[t].pc = "idle")
          => /\ client' = NoHandle /\ char_uuid' = None /\ ~connected'
             /\ task'[t] = NoTask
             /\ watch = "fin" => fin'.kind = "disconnect" /\ fin'.exc = NoExc
      ]_vars

C6_Witness ==
    /\ fin.kind = "disconnect" /\ fin.swallowed /\ fin.exc = NoExc
    /\ client = NoHandle /\ char_uuid = None /\ ~connected

\* C7: a disconnect performed while the controller is already disconnected
\* makes no transport call, changes nothing in the controller and completes
\* without error.
C7_DisconnectIdempotent ==
    [][\A t \in Slots :
          (/\ Runs(t)
           /\ task[t].kind = "disconnect"
           /\ ~connected
           /\ \/ task[t].pc = "lock_disc"
              \/ task[t].pc = "ready" /\ ~locked /\ waiters = <<>>)
          => /\ UNCHANGED << client, char_uuid, address, connected, hstate,
                             closeCalled >>
             /\ task'[t] = NoTask
             /\ watch = "fin" =>
                   fin'.kind = "disconnect" /\ fin'.nclose = 0 /\ fin'.exc = NoExc
      ]_vars

C7_Witness ==
    /\ fin.kind = "disconnect" /\ fin.nclose = 0 /\ fin.exc = NoExc
    /\ ~connected /\ client = NoHandle
    /\ address # None

\* C8: when the transport write raises, the controller stays connected with
\* the same handle and characteristic and only that send fails; a send that
\* starts while the controller is connected goes straight to its write,
\* without a discover or an open call.
C8_WriteFailureKeepsConnection ==
    [][\A t \in Slots :
          /\ (Runs(t) /\ task[t].pc = "write" /\ task'[t].pc = "raised")
             => /\ connected /\ connected'
                /\ UNCHANGED << client, char_uuid, address, hstate >>
                /\ task'[t].exc = "BleakError"
                /\ \A u \in Slots \ {t} : task'[u] = task[u]
                /\ watch = "status" =>
                      status_var' = <<"Send failed: ", "BleakError">>
          /\ (Runs(t) /\ task[t].pc = "ready" /\ task[t].kind = "send"
                /\ connected)
             => /\ task'[t].pc \in {"write", "lock_send"}
                /\ task'[t].nscan = 0 /\ task'[t].nopen = 0
                /\ task'[t].pc = "write" => task'[t].wargs.h = client
      ]_vars

C8_Witness ==
    /\ fin.kind = "send" /\ fin.exc = "BleakError" /\ fin.wrote = 1
    /\ connected
    /\ \E u \in Slots : task[u].pc = "write" /\ task[u].nscan = 0

\* No advertised device carries the name, compared without regard to case.
NoDeviceNamed(devices, name) ==
    \A i \in 1 .. Len(devices) :
       devices[i].name = "" \/ Lower(devices[i].name) # Lower(name)

NotFoundStatus(kind) ==
    IF kind = "connect"
    THEN <<"Device '", DEVICE_NAME, "' not found or no writable char">>
    ELSE <<"Device '", DEVICE_NAME, "' not found">>

\* C9: when discover returns no device with the target name, connect
\* returns false, no open is called, handle, characteristic, address and
\* connected flag are untouched, and the status is a not-found message.
C9_NotFoundLeavesState ==
    [][\A t \in Slots : \A devices \in DeviceLists :
          (NoDeviceNamed(devices, DEVICE_NAME) /\ DiscoverReturnsWith(t, devices))
          => /\ UNCHANGED << client, char_uuid, address, connected, hstate,
                             closeCalled >>
             /\ ~connected'
             /\ ~locked'
             /\ task'[t].pc \notin TransportPcs
             /\ task[t].kind = "connect" => task'[t] = NoTask
             /\ task[t].kind = "send" =>
                   /\ task'[t].pc = "raised"
                   /\ task'[t].ok = "false"
                   /\ task'[t].wrote = 0
             /\ watch = "status" => status_var' = NotFoundStatus(task[t].kind)
             /\ watch = "fin" /\ task[t].kind = "connect" =>
                   fin'.ok = "false" /\ fin'.nopen = 0
      ]_vars

C9_Witness ==
    /\ status_var = NotFoundStatus("connect")
    /\ ~connected /\ client = NoHandle /\ address = None
    /\ AllIdle

\* C10: when a connect fails at or after the transport open, close has been
\* called on the client it created before the failure is returned; the
\* controller is then disconnected, without handle or characteristic, and
\* the lock is free.
C10_ConnectFailureCleanedUp ==
    [][\A t \in Slots :
          /\ (Runs(t) /\ task[t].pc \in {"open", "poll", "cleanup"}
                /\ task'[t].pc \notin {"open", "poll", "cleanup"}
                /\ ~connected')
             => /\ task[t].pc = "cleanup"
                /\ task[t].h \in closeCalled
                /\ task[t].nclose = 1
                /\ client' = NoHandle /\ char_uuid' = None
                /\ ~locked' /\ owner' = 0
                /\ task[t].kind = "send" =>
                      task'[t].pc = "raised" /\ task'[t].ok = "raised"
                /\ watch = "fin" /\ task[t].kind = "connect" =>
                      fin'.ok = "raised"
          /\ (Runs(t) /\ task'[t].pc = "cleanup")
             => task[t].h # NoHandle /\ task[t].h \in closeCalled'
      ]_vars

C10_Witness ==
    /\ fin.ok = "raised" /\ fin.nopen = 1 /\ fin.nclose = 1
    /\ ~connected /\ client = NoHandle /\ char_uuid = None
    /\ ~locked

\* C11: in every state with the lock free, the stored peripheral address is
\* present if and only if the controller is connected (set only by a
\* successful connect, cleared by every disconnect and failed connect).
C11_AddressIffConnected ==
    ~locked => (address # None <=> connected)

\* What the claim says is resolved from a populated service list.
Resolved(services) ==
    LET chars == AllChars(services)
        cmd == {i \in 1 .. Len(chars) :
                  Lower(chars[i].uuid) = Lower(COMMAND_CHAR_UUID)}
        wr == {i \in 1 .. Len(chars) :
                 chars[i].properties \cap {"write", "write-without-response"} # {}}
        Least(S) == CHOOSE i \in S : \A j \in S : i <= j
    IN IF cmd # {} THEN chars[Least(cmd)].uuid
       ELSE IF wr # {} THEN chars[Least(wr)].uuid
       ELSE COMMAND_CHAR_UUID

\* C12: every connect that succeeds on a populated service list selects the
\* characteristic matching the command identifier (case-insensitively) if
\* there is one, even behind a writable one; else the first writable
\* characteristic in service then characteristic order; else the command
\* identifier itself.  The characteristic of a connected controller is never
\* empty.
C12_CharacteristicPriority ==
    [][/\ \A t \in Slots : \A services \in ServiceLists :
             (OpenReturnsWith(t, services) \/ PollWakesWith(t, services))
             => /\ connected'
                /\ client' = task[t].h
                /\ char_uuid' = Resolved(services)
       /\ connected' => char_uuid' \notin {None, ""}
      ]_vars

C12_Witness ==
    /\ connected
    /\ char_uuid = LowerCmdUuid
    /\ hstate[client] = "open"

\* C13: the service list is read at most MaxRetries more times after the
\* open; when it is still empty at the cap the connect ends with success, the
\* controller is connected with the command identifier as characteristic, and
\* a write in flight always goes to the characteristic of the controller.
C13_PollBoundedAndDegrades ==
    [][\A t \in Slots :
          /\ task[t].retries <= MaxRetries
          /\ task[t].pc = "poll" => task[t].retries < MaxRetries
          /\ OpenReturnsWith(t, <<>>) => task'[t].pc = "poll"
          /\ (PollWakesWith(t, <<>>) /\ task[t].retries < MaxRetries - 1)
             => task'[t].pc = "poll" /\ task'[t].retries = task[t].retries + 1
          /\ (PollWakesWith(t, <<>>) /\ task[t].retries = MaxRetries - 1)
             => /\ connected'
                /\ client' = task[t].h
                /\ char_uuid' = COMMAND_CHAR_UUID
                /\ task[t].kind = "connect" =>
                      /\ task'[t] = NoTask
                      /\ watch = "status" =>
                            status_var' = <<"Connected to ", DEVICE_NAME>>
                      /\ watch = "fin" => fin'.ok = "true" /\ fin'.nclose = 0
                /\ task[t].kind = "send" =>
                      /\ task'[t].pc \in {"write", "lock_send"}
                      /\ task'[t].ok = "true"
          /\ task'[t].pc = "write"
             => /\ task'[t].wargs.char = char_uuid'
                /\ task'[t].wargs.h = client'
      ]_vars

C13_Witness ==
    /\ fin.kind = "connect" /\ fin.ok = "true" /\ fin.degraded
    /\ connected
    /\ char_uuid = COMMAND_CHAR_UUID
    /\ \E t \in Slots : task[t].pc = "write"
                        /\ task[t].wargs.char = COMMAND_CHAR_UUID

\* C14: a failing operation (nothing found, open or write raising, library
\* missing) leaves the loop running and, once the controller is quiet, the
\* lock free with nobody queued; a send submitted then on its own never waits
\* for the lock, always has its next step at hand, and with the transport
\* behaving it does not end in failure: it ends with its write done.
C14_FailureDoesNotDisable ==
    [][/\ rec' # "bad"
       /\ (rec' = "failed" /\ \A t \in Slots : task'[t].pc = "idle")
          => ~locked' /\ waiters' = <<>> /\ owner' = 0 /\ readyQ' = <<>>
       /\ rec' = "send"
          => /\ shutdown' = "running"
             /\ \E t \in Slots :
                   /\ task'[t].kind = "send"
                   /\ task'[t].pc \in {"ready", "discover", "open", "poll", "write"}
                   /\ task'[t].pc = "ready" => readyQ' = <<t>>
                   /\ task'[t].pc # "ready" => locked' /\ owner' = t
                   /\ \A u \in Slots \ {t} : task'[u].pc = "idle"
       /\ rec' = "ok" /\ rec = "send"
          => \E t \in Slots : /\ task[t].pc = "write" /\ task[t].wrote = 1
                              /\ task'[t] = NoTask
                              /\ ~locked'
       /\ (shutdown = "running" /\ shutdown' # "running")
          => /\ shutdown' = "waiting"
             /\ quitTask' \in Slots
             /\ task'[quitTask'].kind = "disconnect"
      ]_vars

C14_Witness == rec = "ok" /\ connected /\ ~locked

\* C15: once the operator has confirmed quit, a disconnect has been submitted
\* to the loop; whether it completes in time or the wait times out (the lock
\* is held by another operation, a transport call never returns), the loop is
\* signalled to stop and eventually stops.
C15_ShutdownCompletes ==
    /\ [][(shutdown = "running" /\ shutdown' # "running")
            => /\ shutdown' = "waiting"
               /\ quitTask' \in Slots
               /\ task[quitTask'].pc = "idle"
               /\ task'[quitTask'] = NewTask("disconnect", <<>>)
               /\ readyQ' = Append(readyQ, quitTask')]_vars
    /\ [][shutdown = "waiting" => shutdown' \in {"waiting", "stopping"}]_vars
    /\ [][shutdown = "stopped" => UNCHANGED vars]_vars
    /\ (shutdown = "waiting") ~> (shutdown = "stopped")

C15_Witness ==
    /\ shutdown = "stopped"
    /\ ~quitDone
    /\ task[quitTask].pc = "lock_disc"
    /\ \E t \in Slots : task[t].pc \in {"discover", "open", "write"}

\* C16: a requestDisconnect that completes on a connected controller is
\* followed by a status notification, so that once the controller is quiet
\* and disconnected the status text does not report a connection.
C16_StatusFollowsDisconnect ==
    (watch = "status" /\ shutdown = "running" /\ AllIdle /\ ~connected)
    => status_var # <<"Connected to ", DEVICE_NAME>>

\* The command name whose UTF-8 bytes are payload.
CommandOf(payload) ==
    CHOOSE name \in DOMAIN COMMANDS : Utf8Encode(name) = payload

\* C17: a send issues at most one write; a send that ends successfully has
\* issued exactly one, on the controller's current handle and characteristic,
\* with the UTF-8 bytes of the command name as payload and the acknowledge
\* flag set, and the status then reads "Sent: <command>".
C17_OneWritePerSend ==
    [][\A t \in Slots :
          /\ task'[t].wrote <= 1
          /\ task'[t].pc = "write"
             => /\ task'[t].wrote = 1
                /\ task'[t].wargs.h = client' /\ client' # NoHandle
                /\ task'[t].wargs.char = char_uuid' /\ char_uuid' # None
                /\ task'[t].wargs.response = TRUE
                /\ \E name \in Pressed : task'[t].wargs.payload = Utf8Encode(name)
          /\ task[t].pc = "raised" => task'[t].pc \in {"raised", "idle"}
          /\ (task[t].kind = "send" /\ task[t].pc # "raised" /\ task'[t] = NoTask)
             => /\ task[t].pc = "write" /\ task[t].wrote = 1
                /\ watch = "status" =>
                      status_var' = <<"Sent: ", CommandOf(task[t].wargs.payload)>>
                /\ watch = "fin" =>
                      fin'.kind = "send" /\ fin'.wrote = 1 /\ fin'.exc = NoExc
      ]_vars

C17_Witness ==
    /\ status_var = <<"Sent: ", "forward">>
    /\ connected
    /\ AllIdle

\* C18: a write is in flight only on the handle of the live connection of a
\* connected controller; no write is issued on a handle on which close has
\* been called, and close is not called on a handle with a write in flight.
C18_NoWriteOnClosedHandle ==
    [][\A t \in Slots :
          /\ task'[t].pc = "write"
             => /\ connected'
                /\ task'[t].wargs.h = client'
                /\ hstate'[client'] = "open"
                /\ client' \notin closeCalled'
                /\ \A u \in Slots : task'[u].pc \notin {"close", "cleanup"}
          /\ (task[t].pc # "close" /\ task'[t].pc = "close")
             => \A u \in Slots : task[u].pc # "write"
      ]_vars

C18_Witness ==
    \E t, u \in Slots :
       /\ task[t].pc = "write" /\ task[t].wargs.h = client
       /\ task[u].pc = "lock_disc"
       /\ address # None /\ fin.kind = "disconnect" /\ fin.nclose = 1

OpenHandles == {h \in Handles : hstate[h] = "open"}

\* C19: with a transport whose close never fails, no open handle is ever
\* dropped, at most one handle is open at a time, a connect installs a handle
\* only when the controller holds none, and whenever the lock is free a
\* handle is open if and only if the controller is connected.
C19_NoLeakedConnection ==
    [][/\ ~leaked'
       /\ Cardinality(OpenHandles') <= 1
       /\ ~locked' => (OpenHandles' # {} <=> connected')
       /\ connected' => OpenHandles' = {client'}
       /\ (client' # client /\ client' # NoHandle) => client = NoHandle
       /\ \A t \in Slots :
             (task[t].pc \in {"close", "cleanup"} /\ task'[t].pc # task[t].pc)
             => OpenHandles' = {}
      ]_vars

C19_Witness ==
    /\ watch = "leak" /\ ~leaked
    /\ connected /\ OpenHandles = {client}
    /\ address # None
    /\ \E t \in Slots : task[t].pc = "lock_connect"
    /\ \E t \in Slots : task[t].pc = "close"

\* C20: once the disconnect submitted by on_close has completed within the
\* wait, the controller is disconnected and stays so until the loop has
\* stopped, and no connect sequence (discover, open, service poll) runs or is
\* still to come, whatever requests were pending when the shutdown began.
C20_ShutdownLeavesDisconnected ==
    quitDone =>
       /\ ~connected /\ client = NoHandle /\ char_uuid = None
       /\ shutdown \in {"waiting", "stopping", "stopped"}
       /\ \A t \in Slots :
             /\ task[t].pc \notin {"discover", "open", "poll", "cleanup",
                                   "lock_connect", "write", "close"}
             /\ task[t].pc = "ready" => task[t].kind = "disconnect"

C20_Witness ==
    /\ quitDone
    /\ shutdown = "stopped"
    /\ \E t \in Slots : /\ task[t].kind = "send"
                        /\ task[t].ok = "true"
                        /\ task[t].exc = "Not connected"

====
